---- MODULE Spec2Model ----
(***************************************************************************)
(* State-machine model of the TodoList contract                            *)
(* (src/contracts/TodoList.sol) as seen by its callers, and of the React   *)
(* component that drives it (src/src/TodoList.js).                         *)
(*                                                                         *)
(* Spec is the contract alone, with the history of its last two calls.     *)
(* ClientSpec is one mounted component whose async handlers interleave     *)
(* with the transactions of other accounts; ClientFairSpec adds that every *)
(* awaited call eventually settles.                                        *)
(*                                                                         *)
(* The contract state is the dynamic array `todos`; the event log is the   *)
(* ordered list of events the contract has emitted.  Every external call   *)
(* is one atomic step: a call that reverts leaves the array and the log    *)
(* as they were.  Solidity positions are zero-based, TLA+ sequences are    *)
(* one-based: the entry at Solidity position i is todos[i + 1].            *)
(***************************************************************************)
EXTENDS Integers, Sequences, FiniteSets, TLC

\* ---------------------------------------------------------------- bounds
MaxLen == 3        \* addTodo is not called on an array of this length
MaxEvents == 5     \* no mutating call once the log holds this many events
MaxProcs == 2      \* async handlers of the component that can run at once
MaxClientEvents == 4   \* with the component present: no transaction is applied
                       \* once the log holds this many events

Texts == {"", "a"}           \* the strings handed to addTodo
Indexes == 0 .. MaxLen       \* the uint256 positions handed to toggle/remove

VARIABLES
    todos,       \* Todo[] public todos
    events,      \* the emitted events, in emission order
    last,        \* the most recent external call and what its caller got back
    preTodos,    \* todos before the most recent call
    preEvents,   \* events before the most recent call
    last2,       \* the call before the most recent one
    pre2Todos,   \* todos before that call
    hist,        \* the successful mutating calls so far, in order
    run,         \* what the most recent call executed: loop iterations, pops
    ui,          \* the React state of one TodoList component (src/src/TodoList.js)
    procs        \* the component's async handlers that are running

vars == <<todos, events, last, preTodos, preEvents, last2, pre2Todos, hist, run,
          ui, procs>>

\* ------------------------------------------------------- data and events
Todo(text, completed) == [text |-> text, completed |-> completed]

TodoAdded(id, text) == [kind |-> "TodoAdded", id |-> id, text |-> text]
TodoToggled(id, completed) == [kind |-> "TodoToggled", id |-> id, completed |-> completed]
TodoRemoved(id) == [kind |-> "TodoRemoved", id |-> id]

emitTwice(log, e) == log \o <<e, e>>

emitPrepend(log, e) == <<e>> \o log

\* emit: the log grows by one record at its end
emit(log, e) == Append(log, e)

\* todos.push(x) and todos.pop()
push(arr, x) == Append(arr, x)
pop(arr) == SubSeq(arr, 1, Len(arr) - 1)

\* Outcome of running a function body on (arr, log): either it completes
\* with a new array and log, or it reverts with an error and no effect.
\* iters and pops count the loop iterations and the pop() calls executed.
Done(arr, log) ==
    [ok |-> TRUE, err |-> "", todos |-> arr, events |-> log, iters |-> 0, pops |-> 0]
Revert(msg, arr, log) ==
    [ok |-> FALSE, err |-> msg, todos |-> arr, events |-> log, iters |-> 0, pops |-> 0]

RequireMsg == "Todo does not exist"
PanicArith == "Panic(0x11)"
PanicIndex == "Panic(0x32)"
PanicPop == "Panic(0x31)"

\* ------------------------------------------------------ function bodies
addTodoBodyNonEmpty(arr, log, _text) ==
    IF _text = ""
    THEN Revert("Text is empty", arr, log)
    ELSE Done(Append(arr, Todo(_text, FALSE)),
              Append(log, TodoAdded(Len(arr), _text)))

addTodoBodyIdLen(arr, log, _text) ==
    LET a1 == Append(arr, Todo(_text, FALSE))
    IN  Done(a1, Append(log, TodoAdded(Len(a1), _text)))

\* function addTodo(string memory _text) public
addTodoBody(arr, log, _text) ==
    LET a1 == push(arr, Todo(_text, FALSE))
    IN  IF Len(a1) < 1
        THEN Revert(PanicArith, arr, log)
        ELSE Done(a1, emit(log, TodoAdded(Len(a1) - 1, _text)))

toggleTodoBodySet(arr, log, _index) ==
    IF ~(_index < Len(arr))
    THEN Revert(RequireMsg, arr, log)
    ELSE LET a1 == [arr EXCEPT ![_index + 1].completed = TRUE]
         IN  Done(a1, Append(log, TodoToggled(_index, a1[_index + 1].completed)))

toggleTodoBodyEmitStale(arr, log, _index) ==
    IF ~(_index < Len(arr))
    THEN Revert(RequireMsg, arr, log)
    ELSE LET a1 == [arr EXCEPT ![_index + 1].completed = ~arr[_index + 1].completed]
         IN  Done(a1, Append(log, TodoToggled(_index, arr[_index + 1].completed)))

toggleTodoBodyOverwrite(arr, log, _index) ==
    IF ~(_index < Len(arr))
    THEN Revert(RequireMsg, arr, log)
    ELSE LET a1 == [arr EXCEPT ![_index + 1] = Todo("", ~arr[_index + 1].completed)]
         IN  Done(a1, Append(log, TodoToggled(_index, a1[_index + 1].completed)))

\* function toggleTodo(uint256 _index) public
toggleTodoBody(arr, log, _index) ==
    IF ~(_index < Len(arr))
    THEN Revert(RequireMsg, arr, log)
    ELSE LET a1 == [arr EXCEPT ![_index + 1].completed = ~arr[_index + 1].completed]
         IN  Done(a1, emit(log, TodoToggled(_index, a1[_index + 1].completed)))

\* for (uint i = _index; i < todos.length - 1; i++) todos[i] = todos[i + 1];
\* The result is [ok, err, arr, iters]: ok is FALSE when the checked
\* subtraction or an array access panics; iters counts the executions of
\* the loop body.
RECURSIVE shiftLoopInclusive(_, _)
shiftLoopInclusive(arr, i) ==
    IF Len(arr) < 1
    THEN [ok |-> FALSE, err |-> PanicArith, arr |-> arr, iters |-> 0]
    ELSE IF i <= Len(arr) - 1
         THEN IF ~(i + 1 < Len(arr)) \/ ~(i < Len(arr))
              THEN [ok |-> FALSE, err |-> PanicIndex, arr |-> arr, iters |-> 0]
              ELSE LET r == shiftLoopInclusive([arr EXCEPT ![i + 1] = arr[i + 2]], i + 1)
                   IN  [r EXCEPT !.iters = @ + 1]
         ELSE [ok |-> TRUE, err |-> "", arr |-> arr, iters |-> 0]

RECURSIVE shiftLoop(_, _)
shiftLoop(arr, i) ==
    IF Len(arr) < 1
    THEN [ok |-> FALSE, err |-> PanicArith, arr |-> arr, iters |-> 0]
    ELSE IF i < Len(arr) - 1
         THEN IF ~(i + 1 < Len(arr)) \/ ~(i < Len(arr))
              THEN [ok |-> FALSE, err |-> PanicIndex, arr |-> arr, iters |-> 0]
              ELSE LET r == shiftLoop([arr EXCEPT ![i + 1] = arr[i + 2]], i + 1)
                   IN  [r EXCEPT !.iters = @ + 1]
         ELSE [ok |-> TRUE, err |-> "", arr |-> arr, iters |-> 0]

removeTodoBodySwap(arr, log, _index) ==
    IF ~(_index < Len(arr))
    THEN Revert(RequireMsg, arr, log)
    ELSE Done(pop([arr EXCEPT ![_index + 1] = arr[Len(arr)]]),
              Append(log, TodoRemoved(_index)))

removeTodoBodyNoRequire(arr, log, _index) ==
    LET s == shiftLoop(arr, _index)
    IN  IF ~s.ok
        THEN Revert(s.err, arr, log)
        ELSE Done(pop(s.arr), Append(log, TodoRemoved(_index)))

removeTodoBodyEmitLast(arr, log, _index) ==
    IF ~(_index < Len(arr))
    THEN Revert(RequireMsg, arr, log)
    ELSE LET s == shiftLoop(arr, _index)
         IN  Done(pop(s.arr), Append(log, TodoRemoved(Len(s.arr) - 1)))

removeTodoBodyFromZero(arr, log, _index) ==
    IF ~(_index < Len(arr))
    THEN Revert(RequireMsg, arr, log)
    ELSE LET s == shiftLoop(arr, 0)
         IN  [Done(pop(s.arr), Append(log, TodoRemoved(_index)))
                  EXCEPT !.iters = s.iters, !.pops = 1]

removeTodoBodyNoEmit(arr, log, _index) ==
    IF ~(_index < Len(arr))
    THEN Revert(RequireMsg, arr, log)
    ELSE LET s == shiftLoop(arr, _index)
         IN  [Done(pop(s.arr), log) EXCEPT !.iters = s.iters, !.pops = 1]

\* function removeTodo(uint256 _index) public
removeTodoBody(arr, log, _index) ==
    IF ~(_index < Len(arr))
    THEN Revert(RequireMsg, arr, log)
    ELSE LET s == shiftLoop(arr, _index)
         IN  IF ~s.ok
             THEN Revert(s.err, arr, log)
             ELSE IF Len(s.arr) = 0
                  THEN Revert(PanicPop, arr, log)
                  ELSE [Done(pop(s.arr), emit(log, TodoRemoved(_index)))
                           EXCEPT !.iters = s.iters, !.pops = 1]

getTodosShort(arr) == SubSeq(arr, 1, Len(arr) - 1)

\* function getTodos() public view returns (Todo[] memory)
getTodos(arr) == arr

\* function getTodoCount() public view returns (uint256)
getTodoCount(arr) == Len(arr)

\* ------------------------------------------------------------ call record
\* What a caller of an external function observes: whether the call
\* reverted, the revert reason, and the returned data.  retKind is "none"
\* for a function declared without a returns clause.
CallRec(op, text, index, ok, err, retKind, retNum, retBool, retList) ==
    [op |-> op, text |-> text, index |-> index, ok |-> ok, err |-> err,
     retKind |-> retKind, retNum |-> retNum, retBool |-> retBool,
     retList |-> retList]

NoCall == CallRec("none", "", 0, TRUE, "", "none", 0, FALSE, <<>>)

\* A call whose declared return list is empty
VoidCall(op, text, index, out) ==
    CallRec(op, text, index, out.ok, out.err, "none", 0, FALSE, <<>>)

\* The host applies a transaction atomically: all of it or none of it.
Apply(call, out) ==
    /\ todos' = IF out.ok THEN out.todos ELSE todos
    /\ events' = IF out.ok THEN out.events ELSE events
    /\ last' = call
    /\ preTodos' = todos
    /\ preEvents' = events
    /\ last2' = last
    /\ pre2Todos' = preTodos
    /\ hist' = IF out.ok /\ call.op \in {"addTodo", "toggleTodo", "removeTodo"}
               THEN Append(hist, [op |-> call.op, text |-> call.text, index |-> call.index])
               ELSE hist
    /\ run' = [iters |-> out.iters, pops |-> out.pops]
    /\ UNCHANGED <<ui, procs>>

\* ----------------------------------------------------------------- spec
\* useState initial values
UiInit ==
    [todos |-> <<>>, newTodo |-> "", loading |-> TRUE, error |-> "null",
     contract |-> FALSE, todoCount |-> 0, transactionPending |-> FALSE]

\* A handler slot of the component: where the handler is suspended (pc),
\* what it was called with, shown (the entry rendered at its index when it
\* was clicked) and sentAt (the length of the event log when its
\* transaction was sent).
IdleProc ==
    [pc |-> "idle", op |-> "none", text |-> "", index |-> 0,
     shown |-> Todo("", FALSE), sentAt |-> 0]

Init ==
    /\ todos = <<>>
    /\ events = <<>>
    /\ last = NoCall
    /\ preTodos = <<>>
    /\ preEvents = <<>>
    /\ last2 = NoCall
    /\ pre2Todos = <<>>
    /\ hist = <<>>
    /\ run = [iters |-> 0, pops |-> 0]
    /\ ui = UiInit
    /\ procs = [i \in 1 .. MaxProcs |-> IdleProc]

\* A mutating call is made only while the log has room for its event;
\* a call that reverts emits nothing and is always possible.
Room(out) == out.ok => Len(events) < MaxEvents

addTodo ==
    /\ Len(todos) < MaxLen
    /\ \E _text \in Texts :
          LET out == addTodoBody(todos, events, _text)
          IN  Room(out) /\ Apply(VoidCall("addTodo", _text, 0, out), out)

toggleTodo ==
    \E _index \in Indexes :
        LET out == toggleTodoBody(todos, events, _index)
        IN  Room(out) /\ Apply(VoidCall("toggleTodo", "", _index, out), out)

removeTodo ==
    \E _index \in Indexes :
        LET out == removeTodoBody(todos, events, _index)
        IN  Room(out) /\ Apply(VoidCall("removeTodo", "", _index, out), out)

getTodosCall ==
    Apply(CallRec("getTodos", "", 0, TRUE, "", "list", 0, FALSE, getTodos(todos)),
          Done(todos, events))

getTodoCountCall ==
    Apply(CallRec("getTodoCount", "", 0, TRUE, "", "uint", getTodoCount(todos), FALSE, <<>>),
          Done(todos, events))

Next ==
    \/ addTodo
    \/ toggleTodo
    \/ removeTodo
    \/ getTodosCall
    \/ getTodoCountCall

Spec == Init /\ [][Next]_vars

\* ------------------------------------------------------------- client
\* The component of src/src/TodoList.js.  Its React state is the record ui;
\* each async handler runs from one await to the next in one step, and the
\* awaited contract calls settle in between, interleaved with the calls of
\* other accounts.
Null == "null"

ClientTexts == {"", "a"}     \* what the user can type into the input

\* String.prototype.trim on the texts of the model
Trim(t) == IF t \in {"", " "} THEN "" ELSE t

DisabledLoadingOnly(u) == u.loading

\* disabled={loading || transactionPending}
Disabled(u) == u.loading \/ u.transactionPending

\* const handleError = (error, customMessage) => {
\*   setError(`${customMessage}: ${error.message}`); setLoading(false) }
handleError(u, error, customMessage) ==
    [u EXCEPT !.error = customMessage \o ": " \o error, !.loading = FALSE]

\* error.message of a rejection that is not a revert (the user declined,
\* the transaction was dropped, the node was unreachable)
Rejected == "rejected"

\* fetchTodos up to its first await: setLoading(true)
fetchTodosBegin(u) == [u EXCEPT !.loading = TRUE]

\* fetchTodos after getTodos resolved: setTodos(...); setError(null)
fetchTodosGot(u, fetchedTodos) == [u EXCEPT !.todos = fetchedTodos, !.error = Null]

\* checkTodoCount after getTodoCount resolved: setTodoCount(count.toNumber())
checkTodoCountGot(u, count) == [u EXCEPT !.todoCount = count]

\* fetchTodos: finally { setLoading(false) }
fetchTodosFinally(u) == [u EXCEPT !.loading = FALSE]

\* fetchTodos when getTodos rejected: catch { handleError } finally
fetchTodosCatch(u, error) ==
    fetchTodosFinally(handleError(u, error, "Failed to fetch todos"))

mutationCatchNoFinally(u, error, customMessage) == handleError(u, error, customMessage)

\* addTodo / toggleTodo / removeTodo when an awaited call rejected:
\* catch { handleError } finally { setTransactionPending(false) }
mutationCatch(u, error, customMessage) ==
    [handleError(u, error, customMessage) EXCEPT !.transactionPending = FALSE]

\* addTodo / toggleTodo / removeTodo after `await fetchTodos()` returned:
\* setError(null); finally { setTransactionPending(false) }
mutationAfterFetch(u) == [u EXCEPT !.error = Null, !.transactionPending = FALSE]

\* The custom message of each handler's catch block
FailMsg(op) ==
    CASE op = "addTodo" -> "Failed to add todo"
      [] op = "toggleTodo" -> "Failed to toggle todo"
      [] op = "removeTodo" -> "Failed to remove todo"

IsMutation(op) == op \in {"addTodo", "toggleTodo", "removeTodo"}

\* What the contract does with the transaction a handler submitted
TxOutcome(pr) ==
    CASE pr.op = "addTodo" -> addTodoBody(todos, events, pr.text)
      [] pr.op = "toggleTodo" -> toggleTodoBody(todos, events, pr.index)
      [] pr.op = "removeTodo" -> removeTodoBody(todos, events, pr.index)

\* A transaction is applied only within the bounds of the model
TxRoom(pr) ==
    /\ Len(events) < MaxClientEvents
    /\ pr.op = "addTodo" => Len(todos) < MaxLen

FreeSlots == {i \in 1 .. MaxProcs : procs[i].pc = "idle"}
FreeSlot == CHOOSE i \in FreeSlots : \A j \in FreeSlots : i <= j

StoreHistory == <<last, preTodos, preEvents, last2, pre2Todos, hist, run>>

\* initContract, then the effect that calls fetchTodos once contract is set
initContract ==
    /\ ~ui.contract
    /\ FreeSlots # {}
    /\ ui' = fetchTodosBegin([ui EXCEPT !.contract = TRUE])
    /\ procs' = [procs EXCEPT ![FreeSlot] =
                    [IdleProc EXCEPT !.pc = "getTodos", !.op = "fetchTodos"]]
    /\ UNCHANGED <<todos, events, StoreHistory>>

\* onChange={(e) => setNewTodo(e.target.value)} on an enabled input
typeNewTodo ==
    /\ ui.contract
    /\ ~Disabled(ui)
    /\ \E t \in ClientTexts : t # ui.newTodo /\ ui' = [ui EXCEPT !.newTodo = t]
    /\ UNCHANGED <<todos, events, StoreHistory, procs>>

\* The add button or Enter: addTodo up to `await contract.addTodo(newTodo)`
clickAdd ==
    /\ ui.contract
    /\ ~Disabled(ui)
    /\ Trim(ui.newTodo) # ""
    /\ FreeSlots # {}
    /\ ui' = [ui EXCEPT !.transactionPending = TRUE]
    /\ procs' = [procs EXCEPT ![FreeSlot] =
                    [IdleProc EXCEPT !.pc = "submit", !.op = "addTodo",
                                     !.text = ui.newTodo]]
    /\ UNCHANGED <<todos, events, StoreHistory>>

\* A checkbox or a trash button of the rendered list: toggleTodo(index) /
\* removeTodo(index) up to `await contract.<op>(index)`
clickItem ==
    /\ ui.contract
    /\ ~Disabled(ui)
    /\ FreeSlots # {}
    /\ \E op \in {"toggleTodo", "removeTodo"}, index \in 0 .. Len(ui.todos) - 1 :
          /\ ui' = [ui EXCEPT !.transactionPending = TRUE]
          /\ procs' = [procs EXCEPT ![FreeSlot] =
                          [IdleProc EXCEPT !.pc = "submit", !.op = op,
                                           !.index = index,
                                           !.shown = ui.todos[index + 1]]]
    /\ UNCHANGED <<todos, events, StoreHistory>>

\* `await contract.<op>(...)` resolves: the transaction is sent
submitOk(i) ==
    /\ procs[i].pc = "submit"
    /\ procs' = [procs EXCEPT ![i].pc = "wait", ![i].sentAt = Len(events)]
    /\ UNCHANGED <<todos, events, StoreHistory, ui>>

\* `await contract.<op>(...)` rejects
submitFail(i) ==
    /\ procs[i].pc = "submit"
    /\ ui' = mutationCatch(ui, Rejected, FailMsg(procs[i].op))
    /\ procs' = [procs EXCEPT ![i] = IdleProc]
    /\ UNCHANGED <<todos, events, StoreHistory>>

\* The transaction is applied and `await tx.wait()` resolves; the handler
\* goes on into fetchTodos up to `await contract.getTodos()`
waitMined(i) ==
    /\ procs[i].pc = "wait"
    /\ TxOutcome(procs[i]).ok
    /\ TxRoom(procs[i])
    /\ todos' = TxOutcome(procs[i]).todos
    /\ events' = TxOutcome(procs[i]).events
    /\ ui' = fetchTodosBegin(IF procs[i].op = "addTodo"
                             THEN [ui EXCEPT !.newTodo = ""]
                             ELSE ui)
    /\ procs' = [procs EXCEPT ![i].pc = "getTodos"]
    /\ UNCHANGED StoreHistory

\* The transaction reverts and `await tx.wait()` rejects
waitReverted(i) ==
    /\ procs[i].pc = "wait"
    /\ ~TxOutcome(procs[i]).ok
    /\ ui' = mutationCatch(ui, TxOutcome(procs[i]).err, FailMsg(procs[i].op))
    /\ procs' = [procs EXCEPT ![i] = IdleProc]
    /\ UNCHANGED <<todos, events, StoreHistory>>

\* The transaction is dropped and `await tx.wait()` rejects
waitFail(i) ==
    /\ procs[i].pc = "wait"
    /\ TxOutcome(procs[i]).ok
    /\ ui' = mutationCatch(ui, Rejected, FailMsg(procs[i].op))
    /\ procs' = [procs EXCEPT ![i] = IdleProc]
    /\ UNCHANGED <<todos, events, StoreHistory>>

\* `await contract.getTodos()` resolves; on into checkTodoCount
getTodosOk(i) ==
    /\ procs[i].pc = "getTodos"
    /\ ui' = fetchTodosGot(ui, getTodos(todos))
    /\ procs' = [procs EXCEPT ![i].pc = "getTodoCount"]
    /\ UNCHANGED <<todos, events, StoreHistory>>

\* `await contract.getTodos()` rejects; fetchTodos returns to its caller
getTodosFail(i) ==
    /\ procs[i].pc = "getTodos"
    /\ ui' = IF IsMutation(procs[i].op)
             THEN mutationAfterFetch(fetchTodosCatch(ui, Rejected))
             ELSE fetchTodosCatch(ui, Rejected)
    /\ procs' = [procs EXCEPT ![i] = IdleProc]
    /\ UNCHANGED <<todos, events, StoreHistory>>

\* `await contract.getTodoCount()` resolves; fetchTodos returns
getTodoCountOk(i) ==
    /\ procs[i].pc = "getTodoCount"
    /\ ui' = IF IsMutation(procs[i].op)
             THEN mutationAfterFetch(fetchTodosFinally(checkTodoCountGot(ui, getTodoCount(todos))))
             ELSE fetchTodosFinally(checkTodoCountGot(ui, getTodoCount(todos)))
    /\ procs' = [procs EXCEPT ![i] = IdleProc]
    /\ UNCHANGED <<todos, events, StoreHistory>>

\* `await contract.getTodoCount()` rejects: only console.error
getTodoCountFail(i) ==
    /\ procs[i].pc = "getTodoCount"
    /\ ui' = IF IsMutation(procs[i].op)
             THEN mutationAfterFetch(fetchTodosFinally(ui))
             ELSE fetchTodosFinally(ui)
    /\ procs' = [procs EXCEPT ![i] = IdleProc]
    /\ UNCHANGED <<todos, events, StoreHistory>>

\* A transaction of another account is applied to the contract
otherCaller ==
    /\ Len(events) < MaxClientEvents
    /\ \E out \in
            {addTodoBody(todos, events, t) : t \in {u \in Texts : Len(todos) < MaxLen}}
            \cup {toggleTodoBody(todos, events, k) : k \in Indexes}
            \cup {removeTodoBody(todos, events, k) : k \in Indexes} :
          /\ out.ok
          /\ todos' = out.todos
          /\ events' = out.events
    /\ UNCHANGED <<StoreHistory, ui, procs>>

\* Every awaited call of a running handler settles, one way or the other
Settle ==
    \E i \in 1 .. MaxProcs :
        \/ submitOk(i) \/ submitFail(i)
        \/ waitMined(i) \/ waitReverted(i) \/ waitFail(i)
        \/ getTodosOk(i) \/ getTodosFail(i)
        \/ getTodoCountOk(i) \/ getTodoCountFail(i)

ClientNext ==
    \/ initContract
    \/ typeNewTodo
    \/ clickAdd
    \/ clickItem
    \/ \E i \in 1 .. MaxProcs : submitOk(i)
    \/ \E i \in 1 .. MaxProcs : submitFail(i)
    \/ \E i \in 1 .. MaxProcs : waitMined(i)
    \/ \E i \in 1 .. MaxProcs : waitReverted(i)
    \/ \E i \in 1 .. MaxProcs : waitFail(i)
    \/ \E i \in 1 .. MaxProcs : getTodosOk(i)
    \/ \E i \in 1 .. MaxProcs : getTodosFail(i)
    \/ \E i \in 1 .. MaxProcs : getTodoCountOk(i)
    \/ \E i \in 1 .. MaxProcs : getTodoCountFail(i)
    \/ otherCaller

\* The component is mounted on a contract that is already in use: other
\* accounts have added two entries.  The call history of the contract-only
\* specification is not recorded here.
Preloaded ==
    LET o1 == addTodoBody(<<>>, <<>>, "a")
    IN  addTodoBody(o1.todos, o1.events, "")

ClientInit ==
    /\ todos = Preloaded.todos
    /\ events = Preloaded.events
    /\ last = NoCall
    /\ preTodos = <<>>
    /\ preEvents = <<>>
    /\ last2 = NoCall
    /\ pre2Todos = <<>>
    /\ hist = <<>>
    /\ run = [iters |-> 0, pops |-> 0]
    /\ ui = UiInit
    /\ procs = [i \in 1 .. MaxProcs |-> IdleProc]

ClientSpec == ClientInit /\ [][ClientNext]_vars

\* The same, with every awaited call eventually settling
ClientFairSpec == ClientSpec /\ WF_vars(Settle)

\* ------------------------------------------------------- claim helpers
Mutators == {"addTodo", "toggleTodo", "removeTodo"}

\* s is an initial segment of t
IsPrefix(s, t) == Len(s) <= Len(t) /\ SubSeq(t, 1, Len(s)) = s

\* One step of an observer rebuilding the list from the log
ReplayStep(seq, e) ==
    CASE e.kind = "TodoAdded" -> Append(seq, [text |-> e.text, completed |-> FALSE])
      [] e.kind = "TodoToggled" ->
            IF e.id < Len(seq)
            THEN [seq EXCEPT ![e.id + 1].completed = ~seq[e.id + 1].completed]
            ELSE seq
      [] e.kind = "TodoRemoved" ->
            SubSeq(seq, 1, e.id) \o SubSeq(seq, e.id + 2, Len(seq))

RECURSIVE Replay(_)
Replay(log) ==
    IF log = <<>> THEN <<>>
    ELSE ReplayStep(Replay(SubSeq(log, 1, Len(log) - 1)), log[Len(log)])

KindsIn(log) == {log[i].kind : i \in 1 .. Len(log)}

OnlyAdds == \A i \in 1 .. Len(hist) : hist[i].op = "addTodo"

\* ---------------------------------------------------------------- claims

\* C1: removeTodo(p) on a valid position p succeeds, lowers the count by
\* exactly one, leaves every entry before p where it was and moves every
\* entry after p down by one position, text and flag intact.
C1_RemoveCompaction ==
    (last.op = "removeTodo" /\ last.index < Len(preTodos)) =>
        /\ last.ok
        /\ Len(todos) = Len(preTodos) - 1
        /\ \A q \in 0 .. Len(preTodos) - 1 :
              /\ q < last.index => todos[q + 1] = preTodos[q + 1]
              /\ q > last.index => todos[q] = preTodos[q + 1]

C1_Witness ==
    /\ last.op = "removeTodo" /\ last.ok
    /\ last.index = 1
    /\ Len(preTodos) = 3
    /\ preTodos[1] # preTodos[3]
    /\ preTodos[2] # preTodos[3]

\* C2: toggleTodo(p) and removeTodo(p) with p outside [0, count) revert
\* with the out-of-range error and leave the array and the event log as
\* they were before the call.
C2_BoundsRejection ==
    (last.op \in {"toggleTodo", "removeTodo"} /\ ~(last.index < Len(preTodos))) =>
        /\ ~last.ok
        /\ last.err = RequireMsg
        /\ todos = preTodos
        /\ Len(todos) = Len(preTodos)
        /\ events = preEvents

C2_Witness ==
    /\ last.op = "removeTodo" /\ ~last.ok /\ last.index = Len(preTodos)
    /\ last2.op = "toggleTodo" /\ ~last2.ok
    /\ Len(todos) = 2
    /\ Len(events) >= 3

\* C3: replaying the event log in order from the empty sequence yields
\* exactly the current array.
C3_EventFidelity == Replay(events) = todos

C3_Witness ==
    /\ KindsIn(events) = {"TodoAdded", "TodoToggled", "TodoRemoved"}
    /\ Len(todos) >= 2
    /\ \E i \in 1 .. Len(todos) : todos[i].completed
    /\ ~last.ok

\* C4: toggleTodo(p) on a valid position succeeds and negates the flag of
\* the entry at p; two consecutive toggleTodo(p) calls restore the array.
C4_ToggleInvolution ==
    /\ (last.op = "toggleTodo" /\ last.index < Len(preTodos)) =>
          /\ last.ok
          /\ todos[last.index + 1].completed = ~preTodos[last.index + 1].completed
    /\ ( /\ last.op = "toggleTodo" /\ last.ok
         /\ last2.op = "toggleTodo" /\ last2.ok
         /\ last.index = last2.index ) => todos = pre2Todos

C4_Witness ==
    /\ last.op = "toggleTodo" /\ last.ok
    /\ last2.op = "toggleTodo" /\ last2.ok
    /\ last.index = last2.index
    /\ last.index = 1
    /\ Len(todos) = 2
    /\ todos[1].completed

\* C5: addTodo succeeds for every text, the empty string included; after
\* N addTodo calls from the empty store getTodoCount is N and getTodos is
\* the N texts in call order, each with completed = FALSE.
C5_AppendMonotonicity ==
    /\ last.op = "addTodo" => last.ok
    /\ OnlyAdds =>
          /\ getTodoCount(todos) = Len(hist)
          /\ getTodos(todos) = [i \in 1 .. Len(hist) |-> [text |-> hist[i].text, completed |-> FALSE]]

C5_Witness ==
    /\ OnlyAdds
    /\ Len(hist) = 3
    /\ hist[1].text = "" /\ hist[2].text = "a" /\ hist[3].text = ""
    /\ last.op = "addTodo" /\ last.text = ""

\* C6: a successful addTodo, toggleTodo or removeTodo appends exactly one
\* event: TodoAdded(pre-call count, text), TodoToggled(p, flag after the
\* flip), TodoRemoved(p) respectively.
C6_OneEventPerMutation ==
    (last.op \in Mutators /\ last.ok) =>
        /\ Len(events) = Len(preEvents) + 1
        /\ SubSeq(events, 1, Len(preEvents)) = preEvents
        /\ last.op = "addTodo" =>
              events[Len(events)] =
                  [kind |-> "TodoAdded", id |-> Len(preTodos), text |-> last.text]
        /\ last.op = "toggleTodo" =>
              events[Len(events)] =
                  [kind |-> "TodoToggled", id |-> last.index,
                   completed |-> ~preTodos[last.index + 1].completed]
        /\ last.op = "removeTodo" =>
              events[Len(events)] = [kind |-> "TodoRemoved", id |-> last.index]

C6_Witness ==
    /\ last.op = "removeTodo" /\ last.ok /\ last.index = 0
    /\ last2.op = "toggleTodo" /\ last2.ok
    /\ Len(preTodos) = 2
    /\ Len(events) = 4

\* C7 (as stated): a successful addTodo returns to its caller the new
\* position, equal to the pre-call count and to the id of the TodoAdded
\* event.
C7_AppendReturnsPosition ==
    (last.op = "addTodo" /\ last.ok) =>
        /\ last.retKind = "uint"
        /\ last.retNum = Len(preTodos)
        /\ last.retNum = events[Len(events)].id

\* C7 (amended): addTodo returns no value; the new entry is created at the
\* position equal to the pre-call count, and that position is the id of
\* the TodoAdded event.
C7_AppendPositionInEvent ==
    (last.op = "addTodo" /\ last.ok) =>
        /\ last.retKind = "none"
        /\ Len(todos) = Len(preTodos) + 1
        /\ todos[Len(preTodos) + 1] = [text |-> last.text, completed |-> FALSE]
        /\ events[Len(events)].kind = "TodoAdded"
        /\ events[Len(events)].id = Len(preTodos)

C7_Witness ==
    /\ last.op = "addTodo" /\ last.ok
    /\ Len(preTodos) = 2
    /\ events[Len(events)].id = 2

\* C8 (as stated): a successful toggleTodo returns to its caller the
\* resulting flag, equal to the stored flag and to the flag of the
\* TodoToggled event.
C8_ToggleReturnsFlag ==
    (last.op = "toggleTodo" /\ last.ok) =>
        /\ last.retKind = "bool"
        /\ last.retBool = todos[last.index + 1].completed
        /\ last.retBool = events[Len(events)].completed

\* C8 (amended): toggleTodo returns no value; the flag carried by the
\* TodoToggled event equals the flag stored in the entry after the call.
C8_ToggleFlagInEvent ==
    (last.op = "toggleTodo" /\ last.ok) =>
        /\ last.retKind = "none"
        /\ events[Len(events)].kind = "TodoToggled"
        /\ events[Len(events)].completed = todos[last.index + 1].completed

C8_Witness ==
    /\ last.op = "toggleTodo" /\ last.ok
    /\ last.index = 2
    /\ todos[3].completed
    /\ events[Len(events)].completed

\* C9: getTodos and getTodoCount never fail, change neither the array nor
\* the event log, and return the current array in position order and its
\* length.
C9_ReadsArePure ==
    /\ last.op = "getTodos" =>
          /\ last.ok
          /\ last.retKind = "list"
          /\ last.retList = todos
          /\ todos = preTodos
          /\ events = preEvents
    /\ last.op = "getTodoCount" =>
          /\ last.ok
          /\ last.retKind = "uint"
          /\ last.retNum = Len(todos)
          /\ todos = preTodos
          /\ events = preEvents

C9_Witness ==
    /\ last.op = "getTodos"
    /\ last2.op = "getTodoCount"
    /\ last2.retNum = 3
    /\ Len(last.retList) = 3
    /\ last.retList[1] # last.retList[3]
    /\ Len(events) = 5

RECURSIVE CountKind(_, _)
CountKind(log, kind) ==
    IF log = <<>> THEN 0
    ELSE CountKind(SubSeq(log, 1, Len(log) - 1), kind)
         + (IF log[Len(log)].kind = kind THEN 1 ELSE 0)

Panics == {PanicArith, PanicIndex, PanicPop}

\* C13: a successful toggleTodo(p) leaves the count, the text of the entry
\* at p and every other entry as they were.
C13_ToggleFrame ==
    (last.op = "toggleTodo" /\ last.ok) =>
        /\ Len(todos) = Len(preTodos)
        /\ todos[last.index + 1].text = preTodos[last.index + 1].text
        /\ \A q \in 0 .. Len(preTodos) - 1 :
              q # last.index => todos[q + 1] = preTodos[q + 1]

C13_Witness ==
    /\ last.op = "toggleTodo" /\ last.ok
    /\ last.index = 1
    /\ Len(preTodos) = 3
    /\ preTodos[2].text = "a"
    /\ preTodos[1].completed /\ ~preTodos[3].completed

\* C14: removeTodo(p) on a valid position completes after exactly
\* count - 1 - p executions of the loop body, exactly one pop and exactly
\* one TodoRemoved emission.
C14_RemoveTerminates ==
    (last.op = "removeTodo" /\ last.index < Len(preTodos)) =>
        /\ last.ok
        /\ run.iters = Len(preTodos) - 1 - last.index
        /\ run.pops = 1
        /\ Len(events) = Len(preEvents) + 1
        /\ events[Len(events)].kind = "TodoRemoved"

C14_Witness ==
    /\ last.op = "removeTodo" /\ last.ok /\ last.index = 1 /\ run.iters = 0
    /\ last2.op = "removeTodo" /\ last2.ok /\ last2.index = 0
    /\ Len(pre2Todos) = 3

\* C15: the count equals the number of TodoAdded events minus the number
\* of TodoRemoved events, and the log is as long as the number of
\* successful mutating calls.
C15_CountFromLog ==
    /\ Len(todos) = CountKind(events, "TodoAdded") - CountKind(events, "TodoRemoved")
    /\ Len(events) = Len(hist)

C15_Witness ==
    /\ CountKind(events, "TodoAdded") = 3
    /\ CountKind(events, "TodoRemoved") = 1
    /\ CountKind(events, "TodoToggled") = 1
    /\ ~last.ok
    /\ last2.op = "getTodos"

\* C19: no call to addTodo or removeTodo panics: todos.length - 1 does not
\* underflow and the loop's accesses stay below the length, so a position
\* that passes the bounds check always completes.
C19_NoPanic ==
    /\ last.err \notin Panics
    /\ (last.op = "addTodo") => last.ok
    /\ (last.op = "removeTodo" /\ last.index < Len(preTodos)) => last.ok

C19_Witness ==
    /\ last.op = "removeTodo" /\ last.ok /\ Len(preTodos) = 1
    /\ last2.op = "addTodo" /\ last2.ok /\ pre2Todos = <<>>
    /\ Len(events) = 4

\* -------------------------------------------------------- client claims

\* The handlers of mutations that have not returned yet
InFlight == {i \in 1 .. MaxProcs : procs[i].pc # "idle" /\ IsMutation(procs[i].op)}

\* A contract call of a mutation handler, or the getTodos refresh that
\* follows it, rejects in this step
MutationCallFails ==
    \E i \in 1 .. MaxProcs :
        \/ submitFail(i)
        \/ waitReverted(i)
        \/ waitFail(i)
        \/ (IsMutation(procs[i].op) /\ getTodosFail(i))

\* C11: when a toggleTodo(index) or removeTodo(index) submitted by the
\* component is applied, and no other transaction was applied after it was
\* sent, the store entry at that index is the entry the component displayed
\* at that index when it was clicked, whatever other accounts did between
\* the component's last fetchTodos and the submission.
C11_DisplayedEntryMutated ==
    [][\A i \in 1 .. MaxProcs :
          ( /\ waitMined(i)
            /\ procs[i].op \in {"toggleTodo", "removeTodo"}
            /\ procs[i].sentAt = Len(events) )
              => todos[procs[i].index + 1] = procs[i].shown]_vars

\* C12: when a contract call of a mutation handler, or the getTodos refresh
\* that follows it, fails, the error state is non-null once the handler
\* has returned.
C12_FailureShown ==
    [][MutationCallFails => (InFlight' = {} /\ ui'.error # Null)]_vars

\* C16: whenever the component is idle after a refresh, the displayed
\* todoCount equals the length of the displayed list.
C16_CountMatchesList ==
    (ui.contract /\ ~ui.loading /\ ~ui.transactionPending)
        => ui.todoCount = Len(ui.todos)

\* C17: at most one mutation handler of the component is running at any
\* time; transactionPending is set exactly while one is running, and while
\* it is set neither a click nor typing is possible.
C17_OneMutationInFlight ==
    /\ Cardinality(InFlight) <= 1
    /\ ui.transactionPending <=> InFlight # {}
    /\ ui.transactionPending => ~ENABLED (clickAdd \/ clickItem \/ typeNewTodo)

C17_Witness ==
    /\ InFlight = {1}
    /\ procs[1].pc = "wait"
    /\ ui.transactionPending /\ ~ui.loading
    /\ Len(ui.todos) = 2
    /\ Trim(ui.newTodo) # ""

\* C18: once transactionPending is set it is eventually cleared, whichever
\* way the awaited calls settle.
C18_PendingCleared == ui.transactionPending ~> ~ui.transactionPending

C18_Witness ==
    /\ ui.transactionPending
    /\ procs[1].pc = "getTodoCount"
    /\ procs[1].op = "removeTodo"
    /\ ui.loading
    /\ Len(todos) = 1

====
